---- MODULE Spec2Model ----
(***************************************************************************)
(* Model of the "Databricks Primer" notebook (src/Notebook.py).            *)
(*                                                                         *)
(* The notebook is a sequence of cells that an interactive user may run,   *)
(* and re-run, in any order.  The state is the Python namespace (one       *)
(* variable per DataFrame the cells bind), the imported module aliases,    *)
(* the R interpreter's variable, the temp-view catalog, _sqldf and what    *)
(* display(_sqldf) rendered.  A cell that reads an unbound name stops      *)
(* with a NameError at that statement: the statements before it have taken *)
(* effect, the ones after it have not.                                     *)
(*                                                                         *)
(* A DataFrame is [cols, rows]: cols is the sequence of column names and   *)
(* rows is a bag (multiset) of rows, since Spark promises no row order.    *)
(* A row is a sequence of cells, one per column, in column order.  A cell  *)
(* is <<v>> for the value v and <<>> for SQL NULL.  String columns the     *)
(* notebook takes apart, glues together or sorts (FirstName, LastName) are *)
(* sequences of one-character strings; string columns that are only        *)
(* copied and tested for equality are atomic strings.                      *)
(***************************************************************************)
EXTENDS Bags, FiniteSets, Integers, Sequences, TLC

VARIABLES
    sdf_avengers,            \* line 41
    sdf_avengers_names,      \* line 135
    sdf_avengers_heroes,     \* line 155
    sdf_avengers_new,        \* line 164
    sdf_avengers_expanded,   \* line 173
    sdf_avengers_filtered,   \* line 185
    sdf_avengers_weights,    \* line 222
    sdf_avengers_sum,        \* line 226
    sdf_avengers_partition,  \* line 251
    sdf_avengers_ordered,    \* line 261
    imported,                \* module aliases bound by import: "F", "W"
    str_statement_py,        \* line 91
    str_statement_r,         \* line 98 (R interpreter)
    sql_avengers,            \* the temp view registered at line 312
    _sqldf,                  \* result of the last %sql cell
    lastSql,                 \* which %sql cell ran most recently
    shown_sqldf              \* what display(_sqldf) at line 333 rendered

vars == <<sdf_avengers, sdf_avengers_names, sdf_avengers_heroes,
          sdf_avengers_new, sdf_avengers_expanded, sdf_avengers_filtered,
          sdf_avengers_weights, sdf_avengers_sum, sdf_avengers_partition,
          sdf_avengers_ordered, imported, str_statement_py, str_statement_r,
          sql_avengers, _sqldf, lastSql, shown_sqldf>>

frames == <<sdf_avengers, sdf_avengers_names, sdf_avengers_heroes,
            sdf_avengers_new, sdf_avengers_expanded, sdf_avengers_filtered,
            sdf_avengers_weights, sdf_avengers_sum, sdf_avengers_partition,
            sdf_avengers_ordered>>

-----------------------------------------------------------------------------
(* Cells and values                                                        *)

Null == <<>>
V(x) == <<x>>
IsNull(c) == c = Null
Val(c) == c[1]

\* An unbound name: no DataFrame has zero columns.
Unbound == [cols |-> <<>>, rows |-> EmptyBag]
Bound(df) == df # Unbound

Range(s) == {s[i] : i \in DOMAIN s}

\* Byte order of the characters the data uses (Spark sorts strings by bytes).
Alphabet ==
    <<" ", ",", "-",
      "A", "B", "C", "D", "E", "F", "G", "H", "I", "J", "K", "L", "M",
      "N", "O", "P", "Q", "R", "S", "T", "U", "V", "W", "X", "Y", "Z",
      "a", "b", "c", "d", "e", "f", "g", "h", "i", "j", "k", "l", "m",
      "n", "o", "p", "q", "r", "s", "t", "u", "v", "w", "x", "y", "z">>

Ord(c) == CHOOSE i \in DOMAIN Alphabet : Alphabet[i] = c

\* s sorts strictly before t: lexicographic on bytes, a proper prefix first.
StrLess(s, t) ==
    \E k \in 1..(Len(t)) :
        /\ k <= Len(s) + 1
        /\ \A j \in 1..(k - 1) : s[j] = t[j]
        /\ \/ k = Len(s) + 1
           \/ k <= Len(s) /\ Ord(s[k]) < Ord(t[k])

\* Ascending sort order of cells: NULL first, then by value.
CellLess(a, b) ==
    IF IsNull(b) THEN FALSE
    ELSE IF IsNull(a) THEN TRUE
    ELSE StrLess(Val(a), Val(b))

-----------------------------------------------------------------------------
(* Bags of rows                                                            *)

RECURSIVE SumCopies(_, _)
SumCopies(S, B) ==
    IF S = {} THEN 0
    ELSE LET x == CHOOSE y \in S : TRUE
         IN  B[x] + SumCopies(S \ {x}, B)

BagOfSeq(s) ==
    [x \in Range(s) |-> Cardinality({i \in DOMAIN s : s[i] = x})]

\* The image of bag B under f, a function on B's elements.
BagMap(f, B) ==
    [y \in {f[x] : x \in DOMAIN B} |->
        SumCopies({x \in DOMAIN B : f[x] = y}, B)]

\* The elements of B that keep, a Boolean function on them, maps to TRUE.
BagFilter(keep, B) == [x \in {y \in DOMAIN B : keep[y]} |-> B[x]]

NumRows(df) == BagCardinality(df.rows)

-----------------------------------------------------------------------------
(* DataFrame methods the notebook calls                                    *)

HasCol(cols, name) == \E i \in DOMAIN cols : cols[i] = name
ColIdx(cols, name) == CHOOSE i \in DOMAIN cols : cols[i] = name
Get(df, row, name) == row[ColIdx(df.cols, name)]

\* spark.createDataFrame(data, schema): each inner list becomes a row.
CreateDataFrame(data, names) ==
    [cols |-> names,
     rows |-> BagOfSeq([i \in DOMAIN data |->
                           [j \in DOMAIN data[i] |-> V(data[i][j])]])]

\* df.withColumn(name, expr): replaces the column called name, else appends.
\* expr gives the new cell of each row of df.
WithColumn(df, name, expr) ==
    IF HasCol(df.cols, name)
    THEN [cols |-> df.cols,
          rows |-> BagMap([r \in DOMAIN df.rows |->
                     [r EXCEPT ![ColIdx(df.cols, name)] = expr[r]]], df.rows)]
    ELSE [cols |-> Append(df.cols, name),
          rows |-> BagMap([r \in DOMAIN df.rows |-> Append(r, expr[r])],
                          df.rows)]

\* df.select(items): items is a sequence of [col, as].
Select(df, items) ==
    [cols |-> [i \in DOMAIN items |-> items[i].as],
     rows |-> BagMap([r \in DOMAIN df.rows |->
                [i \in DOMAIN items |-> Get(df, r, items[i].col)]], df.rows)]

Col(name) == [col |-> name, as |-> name]
Alias(name, new) == [col |-> name, as |-> new]

RemoveAt(s, k) == [i \in 1..(Len(s) - 1) |-> IF i < k THEN s[i] ELSE s[i + 1]]

\* df.drop(name): no-op when the column is absent.
Drop(df, name) ==
    IF ~HasCol(df.cols, name) THEN df
    ELSE LET k == ColIdx(df.cols, name)
         IN  [cols |-> RemoveAt(df.cols, k),
              rows |-> BagMap([r \in DOMAIN df.rows |-> RemoveAt(r, k)],
                              df.rows)]

\* df.filter(cond): keeps the rows whose condition is true (not false, not
\* NULL); cond gives the truth of the condition on each row of df.
Filter(df, cond) == [cols |-> df.cols, rows |-> BagFilter(cond, df.rows)]

\* df.union(other): by position; the result keeps df's column names.
Union(df, other) == [cols |-> df.cols, rows |-> df.rows (+) other.rows]


\* left.join(right, on = key, how): equi-join on one column name.  The key
\* column comes first, then left's other columns, then right's other
\* columns; a NULL key matches nothing; how = "left" keeps every unmatched
\* left row with NULLs for right's columns, how = "inner" drops it.
Join(left, right, key, how) ==
    LET lk == ColIdx(left.cols, key)
        rk == ColIdx(right.cols, key)
        Matches(l) == {r \in DOMAIN right.rows :
                          ~IsNull(l[lk]) /\ r[rk] = l[lk]}
        Nulls == [i \in 1..(Len(right.cols) - 1) |-> Null]
        Out(l, rest) == <<l[lk]>> \o RemoveAt(l, lk) \o rest
        pairs == {<<Out(l, RemoveAt(r, rk)), left.rows[l] * right.rows[r]>> :
                       <<l, r>> \in {lr \in (DOMAIN left.rows) \X (DOMAIN right.rows) :
                                        lr[2] \in Matches(lr[1])}}
        lonely == IF how = "left"
                  THEN {<<Out(l, Nulls), left.rows[l]>> :
                           l \in {x \in DOMAIN left.rows : Matches(x) = {}}}
                  ELSE {}
        contrib == pairs \cup lonely
        Total(o) == LET C == {c \in contrib : c[1] = o}
                        n == [c \in C |-> c[2]]
                    IN  SumCopies(C, n)
    IN  [cols |-> <<key>> \o RemoveAt(left.cols, lk) \o RemoveAt(right.cols, rk),
         rows |-> [o \in {c[1] : c \in contrib} |-> Total(o)]]

\* Sum of column idx over the rows S of bag B, copies counted; NULLs are
\* skipped and the sum of no value at all is NULL.
RECURSIVE SumVals(_, _, _)
SumVals(S, B, idx) ==
    IF S = {} THEN 0
    ELSE LET x == CHOOSE y \in S : TRUE
         IN  Val(x[idx]) * B[x] + SumVals(S \ {x}, B, idx)

SumCell(S, B, idx) ==
    LET nn == {x \in S : ~IsNull(x[idx])}
    IN  IF nn = {} THEN Null ELSE V(SumVals(nn, B, idx))

\* df.groupBy(by).agg(F.sum(F.col(of)).alias(as)): one row per distinct
\* value of the grouping column (NULL is a group of its own).
GroupBySum(df, by, of, as) ==
    LET b == ColIdx(df.cols, by)
        o == ColIdx(df.cols, of)
        groups == {r[b] : r \in DOMAIN df.rows}
        Members(g) == {r \in DOMAIN df.rows : r[b] = g}
    IN  [cols |-> <<by, as>>,
         rows |-> [x \in {<<g, SumCell(Members(g), df.rows, o)>> : g \in groups}
                     |-> 1]]

\* The rows of the window partition of r: every row when partBy is empty,
\* else the rows that agree with r on every column of partBy.
Partition(df, partBy, r) ==
    {x \in DOMAIN df.rows :
        \A i \in DOMAIN partBy :
            x[ColIdx(df.cols, partBy[i])] = r[ColIdx(df.cols, partBy[i])]}

\* F.sum(of).over(W.partitionBy(partBy)) evaluated at row r.
SumOver(df, of, partBy, r) ==
    SumCell(Partition(df, partBy, r), df.rows, ColIdx(df.cols, of))

\* F.rank().over(W.partitionBy(partBy).orderBy(orderBy)) evaluated at row r:
\* one more than the number of rows of the partition that sort before r.
RankOver(df, partBy, orderBy, r) ==
    LET o == ColIdx(df.cols, orderBy)
        before == {x \in Partition(df, partBy, r) : CellLess(x[o], r[o])}
    IN  V(1 + SumCopies(before, df.rows))

-----------------------------------------------------------------------------
(* pyspark.sql.functions the notebook calls                                *)

\* F.concat(cells): NULL as soon as one input is NULL.
RECURSIVE ConcatVals(_)
ConcatVals(cells) ==
    IF cells = <<>> THEN <<>>
    ELSE Val(Head(cells)) \o ConcatVals(Tail(cells))

Concat(cells) ==
    IF \E i \in DOMAIN cells : IsNull(cells[i]) THEN Null
    ELSE V(ConcatVals(cells))

Min(a, b) == IF a < b THEN a ELSE b
Max(a, b) == IF a > b THEN a ELSE b

\* F.substring(col, pos, len): pos counts from 1 (0 is read as 1, a negative
\* pos counts from the end); at most len characters.
Substring(c, pos, len) ==
    IF IsNull(c) THEN Null
    ELSE LET s == Val(c)
             start == IF pos > 0 THEN pos
                      ELSE IF pos = 0 THEN 1
                      ELSE Len(s) + pos + 1
             first == Max(start, 1)
             last == Min(start + len - 1, Len(s))
         IN  V(SubSeq(s, first, last))

\* col != lit: NULL (hence not true) when the column is NULL.
NotEqualIsTrue(c, lit) == ~IsNull(c) /\ Val(c) # lit

-----------------------------------------------------------------------------
(* The notebook's literals                                                 *)

l_avengers_data ==
    << <<1, <<"S","t","e","v","e">>, <<"R","o","g","e","r","s">>,
         "Brooklyn, NY", "Blue">>,
       <<2, <<"T","o","n","y">>, <<"S","t","a","r","k">>,
         "Manahattan, NY", "Gold">>,
       <<3, <<"P","e","t","e","r">>, <<"P","a","r","k","e","r">>,
         "Queens, NY", "Blue">>,
       <<4, <<"S","c","o","t","t">>, <<"L","a","n","g">>,
         "Coral Gables, FL", "Blue">>,
       <<5, <<"N","a","t","a","s","h","a">>,
         <<"R","o","m","a","n","o","f","f">>,
         "Stalingrad, USSR", "Black">>,
       <<6, <<"C","l","i","n","t">>, <<"B","a","r","t","o","n">>,
         "Waverly, IA", "Purple">> >>

l_avengers_col_names ==
    <<"ID", "FirstName", "LastName", "Hometown", "Favorite Color">>

l_hero_data ==
    << <<1, "Captain America">>,
       <<2, "Iron Man">>,
       <<3, "Spiderman">>,
       <<4, "Ant-Man">>,
       <<5, "Black Widow">>,
       <<6, "Hawkeye">> >>

l_hero_col_names == <<"ID", "Hero">>

l_new_avenger_data ==
    << <<7, <<"W","a","n","d","a">>, <<"M","a","x","i","m","o","f","f">>,
         "Sokovia", "Scarlet">> >>

\* A hand-typed column list, names first, in place of sdf_avengers.columns.
l_new_avenger_col_names_typed(avengers) ==
    <<"FirstName", "LastName", "ID", "Hometown", "Favorite Color">>

\* sdf_avengers.columns, read when the cell runs
l_new_avenger_col_names(avengers) == avengers.cols

\* An inner join where the left join was meant.
JoinHowInner == "inner"

\* how = 'left' at line 175
JoinHow == "left"

WeightLbs == 200

-----------------------------------------------------------------------------
(* The notebook's transformations, as functions of the frames they read     *)

\* The F.lit(" ") separator left out.
FullNameExprNoSpace(df, r) ==
    Concat(<<Get(df, r, "FirstName"), Get(df, r, "LastName")>>)

\* F.concat(F.col("FirstName"), F.lit(" "), F.col("LastName"))
FullNameExpr(df, r) ==
    Concat(<<Get(df, r, "FirstName"), V(<<" ">>), Get(df, r, "LastName")>>)

AvengersNames(avengers) ==
    Select(WithColumn(avengers, "FullName",
                      [r \in DOMAIN avengers.rows |->
                          FullNameExpr(avengers, r)]),
           <<Col("ID"), Col("FullName")>>)

AvengersExpanded(avengers, new, heroes) ==
    Join(Union(avengers, new), heroes, "ID", JoinHow)

\* The isNotNull filter left out.
HeroIsNotNullOmitted(df, r) == TRUE

\* F.col("Hero").isNotNull()
HeroIsNotNull(df, r) == ~IsNull(Get(df, r, "Hero"))

\* F.col("Favorite Color") != "Gold"
ColorIsNotGold(df, r) == NotEqualIsTrue(Get(df, r, "Favorite Color"), "Gold")

\* F.substring("FirstName", 1,1)
FirstInitialExpr(df, r) == Substring(Get(df, r, "FirstName"), 1, 1)

AvengersFiltered(expanded) ==
    LET f1 == Filter(expanded, [r \in DOMAIN expanded.rows |->
                                   HeroIsNotNull(expanded, r)])
        f2 == Filter(f1, [r \in DOMAIN f1.rows |-> ColorIsNotGold(f1, r)])
        w  == WithColumn(f2, "FirstInitial",
                         [r \in DOMAIN f2.rows |-> FirstInitialExpr(f2, r)])
        d  == Drop(w, "FirstName")
    IN  Select(d, <<Col("FirstInitial"), Col("LastName"), Col("Hometown"),
                    Col("Hero"), Alias("Favorite Color", "FavoriteColor")>>)

AvengersWeights(filtered) ==
    WithColumn(filtered, "WeightLbs",
               [r \in DOMAIN filtered.rows |-> V(WeightLbs)])

\* Grouping by the wrong column.
AvengersSumByInitial(weights) ==
    GroupBySum(weights, "FirstInitial", "WeightLbs", "TotalWeightLbs")

AvengersSum(weights) ==
    GroupBySum(weights, "FavoriteColor", "WeightLbs", "TotalWeightLbs")

AvengersPartition(weights) ==
    WithColumn(weights, "ColorSumWeightLbs",
               [r \in DOMAIN weights.rows |->
                   SumOver(weights, "WeightLbs", <<"FavoriteColor">>, r)])

\* W.orderBy("LastName")
AlphaRankExpr(df, r) == RankOver(df, <<>>, "LastName", r)

\* The partitionBy left out of the second window.
AlphaRankWithinColorExprUnpartitioned(df, r) ==
    RankOver(df, <<>>, "LastName", r)

\* W.partitionBy("FavoriteColor").orderBy("LastName")
AlphaRankWithinColorExpr(df, r) ==
    RankOver(df, <<"FavoriteColor">>, "LastName", r)

AvengersOrdered(filtered) ==
    LET a == WithColumn(filtered, "AlphaRank",
                        [r \in DOMAIN filtered.rows |->
                            AlphaRankExpr(filtered, r)])
    IN  WithColumn(a, "AlphaRankWithinColor",
                   [r \in DOMAIN a.rows |-> AlphaRankWithinColorExpr(a, r)])

-----------------------------------------------------------------------------
(* %sql cells: the text of a query, lexeme by lexeme, and how it is read   *)

\* line 105
sql_hello_result ==
    [cols |-> <<"statement_sql">>,
     rows |-> SetToBag({<<V("Hello, SQL World!")>>})]

\* line 317
sql_oneline ==
    <<"select", " ", "FirstName", ",", " ", "LastName", " ", "from", " ",
      "sql_avengers", " ", "where", " ", "ID", " ", "=", " ", "2", ";">>

\* The query changed while it was being laid out: another ID.
sql_formatted_edited ==
    <<"select", "\n",
      " ", " ", "FirstName", ",", "\n",
      " ", " ", "LastName", "\n",
      "from", "\n",
      " ", " ", "sql_avengers", "\n",
      "where", "\n",
      " ", " ", "ID", " ", "=", " ", "3", ";">>

\* lines 322-328
sql_formatted ==
    <<"select", "\n",
      " ", " ", "FirstName", ",", "\n",
      " ", " ", "LastName", "\n",
      "from", "\n",
      " ", " ", "sql_avengers", "\n",
      "where", "\n",
      " ", " ", "ID", " ", "=", " ", "2", ";">>

IsBlank(lexeme) == lexeme \in {" ", "\n", "\t"}

\* The tokens of a statement: blanks separate tokens and are dropped, and the
\* terminating semicolon is not part of the statement.
Tokens(text) == SelectSeq(text, LAMBDA x : ~IsBlank(x) /\ x # ";")

Digits == <<"0", "1", "2", "3", "4", "5", "6", "7", "8", "9">>
ParseInt(tok) == (CHOOSE i \in DOMAIN Digits : Digits[i] = tok) - 1

PosOf(toks, word) == CHOOSE i \in DOMAIN toks : toks[i] = word

\* select <columns> from <table> where <column> = <integer>
ParseQuery(text) ==
    LET toks == Tokens(text)
        f == PosOf(toks, "from")
        w == PosOf(toks, "where")
        names == SelectSeq(SubSeq(toks, 2, f - 1), LAMBDA x : x # ",")
    IN  [items |-> [i \in DOMAIN names |-> Col(names[i])],
         table |-> toks[f + 1],
         col   |-> toks[w + 1],
         lit   |-> ParseInt(toks[w + 3])]

\* col = lit: NULL (hence not true) when the column is NULL.
EqualIsTrue(c, lit) == ~IsNull(c) /\ Val(c) = lit

RunQuery(text, view) ==
    LET q == ParseQuery(text)
    IN  Select(Filter(view, [r \in DOMAIN view.rows |->
                                EqualIsTrue(Get(view, r, q.col), q.lit)]),
               q.items)

-----------------------------------------------------------------------------
(* The cells                                                               *)

Init ==
    /\ sdf_avengers = Unbound
    /\ sdf_avengers_names = Unbound
    /\ sdf_avengers_heroes = Unbound
    /\ sdf_avengers_new = Unbound
    /\ sdf_avengers_expanded = Unbound
    /\ sdf_avengers_filtered = Unbound
    /\ sdf_avengers_weights = Unbound
    /\ sdf_avengers_sum = Unbound
    /\ sdf_avengers_partition = Unbound
    /\ sdf_avengers_ordered = Unbound
    /\ imported = {}
    /\ str_statement_py = Null
    /\ str_statement_r = Null
    /\ sql_avengers = Unbound
    /\ _sqldf = Unbound
    /\ lastSql = "none"
    /\ shown_sqldf = Unbound

\* lines 31-52
CellCreateAvengers ==
    /\ sdf_avengers' = CreateDataFrame(l_avengers_data, l_avengers_col_names)
    /\ UNCHANGED <<sdf_avengers_names, sdf_avengers_heroes, sdf_avengers_new,
                   sdf_avengers_expanded, sdf_avengers_filtered,
                   sdf_avengers_weights, sdf_avengers_sum,
                   sdf_avengers_partition, sdf_avengers_ordered, imported,
                   str_statement_py, str_statement_r, sql_avengers, _sqldf,
                   lastSql, shown_sqldf>>

\* lines 90-92
CellHelloPython ==
    /\ str_statement_py' = V("Hello, Python World!")
    /\ UNCHANGED <<frames, imported, str_statement_r, sql_avengers, _sqldf,
                   lastSql, shown_sqldf>>

\* lines 96-99
CellHelloR ==
    /\ str_statement_r' = V("Hello, R World!")
    /\ UNCHANGED <<frames, imported, str_statement_py, sql_avengers, _sqldf,
                   lastSql, shown_sqldf>>

\* lines 103-105
CellHelloSql ==
    /\ _sqldf' = sql_hello_result
    /\ lastSql' = "hello"
    /\ UNCHANGED <<frames, imported, str_statement_py, str_statement_r,
                   sql_avengers, shown_sqldf>>

\* lines 120-123
CellImport ==
    /\ imported' = imported \cup {"F", "datetime", "DateType", "IntegerType"}
    /\ UNCHANGED <<frames, str_statement_py, str_statement_r, sql_avengers,
                   _sqldf, lastSql, shown_sqldf>>

\* lines 133-140
CellNames ==
    /\ Bound(sdf_avengers)
    /\ "F" \in imported
    /\ sdf_avengers_names' = AvengersNames(sdf_avengers)
    /\ UNCHANGED <<sdf_avengers, sdf_avengers_heroes, sdf_avengers_new,
                   sdf_avengers_expanded, sdf_avengers_filtered,
                   sdf_avengers_weights, sdf_avengers_sum,
                   sdf_avengers_partition, sdf_avengers_ordered, imported,
                   str_statement_py, str_statement_r, sql_avengers, _sqldf,
                   lastSql, shown_sqldf>>

\* lines 144-168: line 155 binds sdf_avengers_heroes before line 162 reads
\* sdf_avengers, so the heroes are bound even when line 162 raises.
CellNewFrames ==
    /\ sdf_avengers_heroes' = CreateDataFrame(l_hero_data, l_hero_col_names)
    /\ sdf_avengers_new' =
          IF Bound(sdf_avengers)
          THEN CreateDataFrame(l_new_avenger_data,
                               l_new_avenger_col_names(sdf_avengers))
          ELSE sdf_avengers_new
    /\ UNCHANGED <<sdf_avengers, sdf_avengers_names, sdf_avengers_expanded,
                   sdf_avengers_filtered, sdf_avengers_weights,
                   sdf_avengers_sum, sdf_avengers_partition,
                   sdf_avengers_ordered, imported, str_statement_py,
                   str_statement_r, sql_avengers, _sqldf, lastSql,
                   shown_sqldf>>

\* lines 172-179
CellExpanded ==
    /\ Bound(sdf_avengers)
    /\ Bound(sdf_avengers_new)
    /\ Bound(sdf_avengers_heroes)
    /\ sdf_avengers_expanded' =
          AvengersExpanded(sdf_avengers, sdf_avengers_new, sdf_avengers_heroes)
    /\ UNCHANGED <<sdf_avengers, sdf_avengers_names, sdf_avengers_heroes,
                   sdf_avengers_new, sdf_avengers_filtered,
                   sdf_avengers_weights, sdf_avengers_sum,
                   sdf_avengers_partition, sdf_avengers_ordered, imported,
                   str_statement_py, str_statement_r, sql_avengers, _sqldf,
                   lastSql, shown_sqldf>>

\* lines 183-193
CellFiltered ==
    /\ Bound(sdf_avengers_expanded)
    /\ "F" \in imported
    /\ sdf_avengers_filtered' = AvengersFiltered(sdf_avengers_expanded)
    /\ UNCHANGED <<sdf_avengers, sdf_avengers_names, sdf_avengers_heroes,
                   sdf_avengers_new, sdf_avengers_expanded,
                   sdf_avengers_weights, sdf_avengers_sum,
                   sdf_avengers_partition, sdf_avengers_ordered, imported,
                   str_statement_py, str_statement_r, sql_avengers, _sqldf,
                   lastSql, shown_sqldf>>

\* lines 220-231
CellWeights ==
    /\ Bound(sdf_avengers_filtered)
    /\ "F" \in imported
    /\ sdf_avengers_weights' = AvengersWeights(sdf_avengers_filtered)
    /\ sdf_avengers_sum' = AvengersSum(sdf_avengers_weights')
    /\ UNCHANGED <<sdf_avengers, sdf_avengers_names, sdf_avengers_heroes,
                   sdf_avengers_new, sdf_avengers_expanded,
                   sdf_avengers_filtered, sdf_avengers_partition,
                   sdf_avengers_ordered, imported, str_statement_py,
                   str_statement_r, sql_avengers, _sqldf, lastSql,
                   shown_sqldf>>

\* lines 247-269: the import at line 248 takes effect even when a later
\* statement of the cell raises; line 261 runs only if line 251 succeeded.
CellWindow ==
    LET ok1 == Bound(sdf_avengers_weights) /\ "F" \in imported
        ok2 == ok1 /\ Bound(sdf_avengers_filtered)
    IN  /\ imported' = imported \cup {"W"}
        /\ sdf_avengers_partition' =
              IF ok1 THEN AvengersPartition(sdf_avengers_weights)
              ELSE sdf_avengers_partition
        /\ sdf_avengers_ordered' =
              IF ok2 THEN AvengersOrdered(sdf_avengers_filtered)
              ELSE sdf_avengers_ordered
        /\ UNCHANGED <<sdf_avengers, sdf_avengers_names, sdf_avengers_heroes,
                       sdf_avengers_new, sdf_avengers_expanded,
                       sdf_avengers_filtered, sdf_avengers_weights,
                       sdf_avengers_sum, str_statement_py, str_statement_r,
                       sql_avengers, _sqldf, lastSql, shown_sqldf>>

\* lines 311-312
CellTempView ==
    /\ Bound(sdf_avengers)
    /\ sql_avengers' = sdf_avengers
    /\ UNCHANGED <<frames, imported, str_statement_py, str_statement_r,
                   _sqldf, lastSql, shown_sqldf>>

\* lines 316-317
CellSqlOneLine ==
    /\ Bound(sql_avengers)
    /\ ParseQuery(sql_oneline).table = "sql_avengers"
    /\ _sqldf' = RunQuery(sql_oneline, sql_avengers)
    /\ lastSql' = "oneline"
    /\ UNCHANGED <<frames, imported, str_statement_py, str_statement_r,
                   sql_avengers, shown_sqldf>>

\* lines 321-328
CellSqlFormatted ==
    /\ Bound(sql_avengers)
    /\ ParseQuery(sql_formatted).table = "sql_avengers"
    /\ _sqldf' = RunQuery(sql_formatted, sql_avengers)
    /\ lastSql' = "formatted"
    /\ UNCHANGED <<frames, imported, str_statement_py, str_statement_r,
                   sql_avengers, shown_sqldf>>

\* lines 332-333
CellDisplaySqldf ==
    /\ Bound(_sqldf)
    /\ shown_sqldf' = _sqldf
    /\ UNCHANGED <<frames, imported, str_statement_py, str_statement_r,
                   sql_avengers, _sqldf, lastSql>>

Next ==
    \/ CellCreateAvengers
    \/ CellHelloPython
    \/ CellHelloR
    \/ CellHelloSql
    \/ CellImport
    \/ CellNames
    \/ CellNewFrames
    \/ CellExpanded
    \/ CellFiltered
    \/ CellWeights
    \/ CellWindow
    \/ CellTempView
    \/ CellSqlOneLine
    \/ CellSqlFormatted
    \/ CellDisplaySqldf

Spec == Init /\ [][Next]_vars

-----------------------------------------------------------------------------
(* Properties                                                              *)

\* Number of rows of df, copies counted, among the rows S.
CountRows(df, S) == SumCopies(S \cap DOMAIN df.rows, df.rows)

\* The cells of row r of df under the columns names, in that order.
Project(df, r, names) == [i \in DOMAIN names |-> Get(df, r, names[i])]

\* C1: sdf_avengers_expanded has exactly one row per row of the union of
\* sdf_avengers and sdf_avengers_new: 7 rows, each ID of 1..7 once; a row with
\* ID 1..6 carries the Hero of the hero row with that ID, the row with ID 7
\* is kept with Hero NULL, and no left row is dropped or duplicated.
C1_ExpandedKeepsEveryLeftRow ==
    Bound(sdf_avengers_expanded) =>
        LET e == sdf_avengers_expanded
            h == sdf_avengers_heroes
            left == sdf_avengers.rows (+) sdf_avengers_new.rows
        IN  /\ NumRows(e) = 7
            /\ NumRows(e) = BagCardinality(left)
            /\ \A i \in 1..7 :
                  CountRows(e, {r \in DOMAIN e.rows : Get(e, r, "ID") = V(i)}) = 1
            /\ \A l \in DOMAIN left :
                  CountRows(e, {r \in DOMAIN e.rows :
                      Project(e, r, l_avengers_col_names) = l}) = left[l]
            /\ \A r \in DOMAIN e.rows :
                  /\ Val(Get(e, r, "ID")) \in 1..6 =>
                        \E x \in DOMAIN h.rows :
                            /\ Get(h, x, "ID") = Get(e, r, "ID")
                            /\ Get(h, x, "Hero") = Get(e, r, "Hero")
                            /\ ~IsNull(Get(e, r, "Hero"))
                  /\ Val(Get(e, r, "ID")) = 7 => IsNull(Get(e, r, "Hero"))

C1_Witness ==
    /\ Bound(sdf_avengers_expanded)
    /\ \E r \in DOMAIN sdf_avengers_expanded.rows :
          /\ Get(sdf_avengers_expanded, r, "ID") = V(7)
          /\ IsNull(Get(sdf_avengers_expanded, r, "Hero"))
    /\ \E r \in DOMAIN sdf_avengers_expanded.rows :
          /\ Get(sdf_avengers_expanded, r, "ID") = V(2)
          /\ Get(sdf_avengers_expanded, r, "Hero") = V("Iron Man")

\* What the filter cell is meant to make of a row of sdf_avengers_expanded.
FilteredImage(e, r) ==
    <<V(<<Val(Get(e, r, "FirstName"))[1]>>), Get(e, r, "LastName"),
      Get(e, r, "Hometown"), Get(e, r, "Hero"), Get(e, r, "Favorite Color")>>

FilteredKeeps(e, r) ==
    /\ ~IsNull(Get(e, r, "Hero"))
    /\ ~IsNull(Get(e, r, "Favorite Color"))
    /\ Val(Get(e, r, "Favorite Color")) # "Gold"

\* C2: sdf_avengers_filtered keeps a row of sdf_avengers_expanded iff its Hero
\* is not NULL and its Favorite Color is not "Gold": the 5 rows with IDs 1, 3,
\* 4, 5, 6.  Its columns are FirstInitial, LastName, Hometown, Hero,
\* FavoriteColor in that order, FirstInitial being the first character of
\* FirstName and FavoriteColor the row's "Favorite Color".
C2_FilteredRowsAndColumns ==
    Bound(sdf_avengers_filtered) =>
        LET e == sdf_avengers_expanded
            f == sdf_avengers_filtered
        IN  /\ f.cols = <<"FirstInitial", "LastName", "Hometown", "Hero",
                          "FavoriteColor">>
            /\ NumRows(f) = 5
            /\ NumRows(f) = CountRows(e, {r \in DOMAIN e.rows : FilteredKeeps(e, r)})
            /\ {Val(Get(e, r, "ID")) :
                   r \in {x \in DOMAIN e.rows : FilteredKeeps(e, x)}}
                  = {1, 3, 4, 5, 6}
            /\ \A r \in DOMAIN e.rows :
                  FilteredKeeps(e, r) <=> FilteredImage(e, r) \in DOMAIN f.rows
            /\ \A x \in DOMAIN f.rows :
                  f.rows[x] = CountRows(e, {r \in DOMAIN e.rows :
                                 FilteredKeeps(e, r) /\ FilteredImage(e, r) = x})

C2_Witness ==
    /\ Bound(sdf_avengers_filtered)
    /\ \E r \in DOMAIN sdf_avengers_expanded.rows :
          ~FilteredKeeps(sdf_avengers_expanded, r)
    /\ <<V(<<"N">>), V(<<"R","o","m","a","n","o","f","f">>),
         V("Stalingrad, USSR"), V("Black Widow"), V("Black")>>
          \in DOMAIN sdf_avengers_filtered.rows

\* C3: sdf_avengers_sum has the columns FavoriteColor and TotalWeightLbs and
\* exactly one row per distinct FavoriteColor of sdf_avengers_filtered, whose
\* TotalWeightLbs is 200 times the number of filtered rows of that colour; the
\* totals add up to 200 times the number of filtered rows (Blue 600, Black
\* 200, Purple 200).
C3_SumPerColor ==
    Bound(sdf_avengers_sum) =>
        LET s == sdf_avengers_sum
            f == sdf_avengers_filtered
            colors == {Get(f, r, "FavoriteColor") : r \in DOMAIN f.rows}
        IN  /\ s.cols = <<"FavoriteColor", "TotalWeightLbs">>
            /\ NumRows(s) = Cardinality(colors)
            /\ \A c \in colors :
                  /\ CountRows(s, {r \in DOMAIN s.rows : Get(s, r, "FavoriteColor") = c}) = 1
                  /\ \A r \in DOMAIN s.rows :
                        Get(s, r, "FavoriteColor") = c =>
                           Get(s, r, "TotalWeightLbs") =
                              V(200 * CountRows(f, {x \in DOMAIN f.rows :
                                           Get(f, x, "FavoriteColor") = c}))
            /\ SumVals(DOMAIN s.rows, s.rows, 2) = 200 * NumRows(f)
            /\ s.rows = SetToBag({<<V("Blue"), V(600)>>,
                                  <<V("Black"), V(200)>>,
                                  <<V("Purple"), V(200)>>})

C3_Witness ==
    /\ Bound(sdf_avengers_sum)
    /\ <<V("Blue"), V(600)>> \in DOMAIN sdf_avengers_sum.rows
    /\ NumRows(sdf_avengers_filtered) > NumRows(sdf_avengers_sum)

\* C4: sdf_avengers_names has exactly the columns ID and FullName and one row
\* per row of sdf_avengers (6 rows, same IDs); FullName is the row's
\* FirstName, one space, then its LastName.
C4_NamesAreFirstSpaceLast ==
    Bound(sdf_avengers_names) =>
        LET n == sdf_avengers_names
            a == sdf_avengers
        IN  /\ n.cols = <<"ID", "FullName">>
            /\ NumRows(n) = 6
            /\ NumRows(n) = NumRows(a)
            /\ \A r \in DOMAIN a.rows :
                  CountRows(n, {x \in DOMAIN n.rows :
                      /\ Get(n, x, "ID") = Get(a, r, "ID")
                      /\ Get(n, x, "FullName") =
                            V(Val(Get(a, r, "FirstName")) \o <<" ">>
                                 \o Val(Get(a, r, "LastName")))}) = a.rows[r]
            /\ <<V(2), V(<<"T","o","n","y"," ","S","t","a","r","k">>)>>
                  \in DOMAIN n.rows

C4_Witness ==
    /\ Bound(sdf_avengers_names)
    /\ <<V(6), V(<<"C","l","i","n","t"," ","B","a","r","t","o","n">>)>>
          \in DOMAIN sdf_avengers_names.rows

\* C5: sdf_avengers_new has the column names of sdf_avengers in the same
\* order, so the position-based union puts every value of the new row (7,
\* Wanda, Maximoff, Sokovia, Scarlet) under the column of the same name; the
\* union has the 6 original rows plus that row, the original values unchanged.
C5_NewRowLandsUnderSameNames ==
    /\ Bound(sdf_avengers_new) =>
          /\ sdf_avengers_new.cols = sdf_avengers.cols
          /\ sdf_avengers_new.cols = l_avengers_col_names
          /\ NumRows(sdf_avengers_new) = 1
    /\ Bound(sdf_avengers_expanded) =>
          LET e == sdf_avengers_expanded
              a == sdf_avengers
              n == sdf_avengers_new
          IN  /\ \A r \in DOMAIN n.rows : \A i \in DOMAIN n.cols :
                    CountRows(e, {x \in DOMAIN e.rows :
                        /\ Get(e, x, "ID") = V(7)
                        /\ Get(e, x, n.cols[i]) = Get(n, r, n.cols[i])}) = 1
              /\ \E x \in DOMAIN e.rows :
                    Project(e, x, <<"ID", "FirstName", "LastName", "Hometown",
                                    "Favorite Color">>)
                       = <<V(7), V(<<"W","a","n","d","a">>),
                           V(<<"M","a","x","i","m","o","f","f">>),
                           V("Sokovia"), V("Scarlet")>>
              /\ \A r \in DOMAIN a.rows :
                    CountRows(e, {x \in DOMAIN e.rows :
                        Project(e, x, a.cols) = r}) = a.rows[r]
              /\ NumRows(e) = NumRows(a) + 1

C5_Witness ==
    /\ Bound(sdf_avengers_new)
    /\ Bound(sdf_avengers_expanded)
    /\ \E x \in DOMAIN sdf_avengers_expanded.rows :
          Get(sdf_avengers_expanded, x, "Favorite Color") = V("Scarlet")

TonyStark ==
    [cols |-> <<"FirstName", "LastName">>,
     rows |-> SetToBag({<<V(<<"T","o","n","y">>), V(<<"S","t","a","r","k">>)>>})]

\* C6: the temp view holds the rows of sdf_avengers; the one-line query and
\* the formatted query read the same and each returns exactly the one row
\* (Tony, Stark); _sqldf holds the result of the %sql cell that ran last, and
\* display(_sqldf) shows that frame.
C6_SqlCellsAgree ==
    /\ Bound(sql_avengers) => sql_avengers = sdf_avengers
    /\ ParseQuery(sql_oneline) = ParseQuery(sql_formatted)
    /\ lastSql = "none" => ~Bound(_sqldf)
    /\ lastSql = "hello" => _sqldf = sql_hello_result
    /\ lastSql = "oneline" => _sqldf = TonyStark
    /\ lastSql = "formatted" => _sqldf = TonyStark
    /\ Bound(shown_sqldf) => shown_sqldf \in {sql_hello_result, TonyStark}

C6_Witness ==
    /\ lastSql = "formatted"
    /\ shown_sqldf = TonyStark
    /\ _sqldf = TonyStark

\* C7: AlphaRank is 1 + the number of rows of sdf_avengers_filtered with a
\* strictly smaller LastName, AlphaRankWithinColor the same among the rows of
\* the same FavoriteColor.  AlphaRank is a permutation of 1..5 (Barton 1, Lang
\* 2, Parker 3, Rogers 4, Romanoff 5), every colour has a row with
\* AlphaRankWithinColor = 1, AlphaRankWithinColor <= AlphaRank on every row,
\* and the number of rows is that of sdf_avengers_filtered.
C7_Ranks ==
    Bound(sdf_avengers_ordered) =>
        LET o == sdf_avengers_ordered
            f == sdf_avengers_filtered
            RankOf(last) ==
                {Val(Get(o, r, "AlphaRank")) :
                    r \in {x \in DOMAIN o.rows : Get(o, x, "LastName") = V(last)}}
        IN  /\ NumRows(o) = NumRows(f)
            /\ o.cols = f.cols \o <<"AlphaRank", "AlphaRankWithinColor">>
            /\ \A r \in DOMAIN o.rows :
                  /\ Project(o, r, f.cols) \in DOMAIN f.rows
                  /\ Val(Get(o, r, "AlphaRank")) =
                        1 + CountRows(f, {x \in DOMAIN f.rows :
                               StrLess(Val(Get(f, x, "LastName")),
                                       Val(Get(o, r, "LastName")))})
                  /\ Val(Get(o, r, "AlphaRankWithinColor")) =
                        1 + CountRows(f, {x \in DOMAIN f.rows :
                               /\ Get(f, x, "FavoriteColor") =
                                     Get(o, r, "FavoriteColor")
                               /\ StrLess(Val(Get(f, x, "LastName")),
                                          Val(Get(o, r, "LastName")))})
                  /\ Val(Get(o, r, "AlphaRankWithinColor"))
                        <= Val(Get(o, r, "AlphaRank"))
            /\ \A k \in 1..5 :
                  CountRows(o, {r \in DOMAIN o.rows : Get(o, r, "AlphaRank") = V(k)}) = 1
            /\ RankOf(<<"B","a","r","t","o","n">>) = {1}
            /\ RankOf(<<"L","a","n","g">>) = {2}
            /\ RankOf(<<"P","a","r","k","e","r">>) = {3}
            /\ RankOf(<<"R","o","g","e","r","s">>) = {4}
            /\ RankOf(<<"R","o","m","a","n","o","f","f">>) = {5}
            /\ \A c \in {Get(o, r, "FavoriteColor") : r \in DOMAIN o.rows} :
                  \E r \in DOMAIN o.rows :
                      /\ Get(o, r, "FavoriteColor") = c
                      /\ Get(o, r, "AlphaRankWithinColor") = V(1)

C7_Witness ==
    /\ Bound(sdf_avengers_ordered)
    /\ \E r \in DOMAIN sdf_avengers_ordered.rows :
          /\ Get(sdf_avengers_ordered, r, "AlphaRank") = V(4)
          /\ Get(sdf_avengers_ordered, r, "AlphaRankWithinColor") = V(3)

====
